---- MODULE Spec2Model ----
(***************************************************************************)
(* F1-Notif-Bot: the reconciliation loop that notifies sessions and marks  *)
(* weekends done.  The repository holds three revisions of the loop, each  *)
(* with its own scheduler:                                                 *)
(*   "libsql"  src/src/bot/mod.rs  + src/src/util/helpers.rs               *)
(*   "pg"      src/src/bot/notifs.rs (runner) + src/src/model/mod.rs       *)
(*   "mongo"   src/src/main.rs     + src/src/util/database.rs              *)
(* A behaviour runs one revision (variable rev) against one series.        *)
(* Times are milliseconds.  Session status "Finished" is written "Done" by *)
(* the pg revision and is the notified flag of the mongo revision.         *)
(***************************************************************************)
EXTENDS Integers, Sequences, FiniteSets, TLC

VARIABLES
    rev,               \* which revision of the loop is running
    now,               \* Utc::now(), in ms
    weekends,          \* repository: weekend id -> [status, start]
    sessions,          \* repository: session rows, in the order they load
    persistent,        \* repository: the non-expired Persistent message row
    last_weekend_ids,  \* in-memory: last_weekend_ids[series] / runner's hash
    last_hash,         \* in-memory: last_hash of main.rs
    alive,             \* FALSE once the process has exited
    sent,              \* channel: notifications sent, per session id
    notified,          \* history: sessions returned and then written Finished
    finished,          \* history: sessions whose Finished status the program wrote
    marked_done,       \* history: weekends whose Done status the loop wrote
    active,            \* result of the last check_active_session call
    expired,           \* result of the last check_expired_weekend call
    messages,          \* repository + channel: the tracked messages a sweep selects
    calendar,          \* repository + channel: the tracked Calendar messages
    task               \* the cache_ready guard and the spawned loop's place in an iteration

vars == <<rev, now, weekends, sessions, persistent, last_weekend_ids,
          last_hash, alive, sent, notified, finished, marked_done,
          active, expired, messages, calendar, task>>

(***************************************************************************)
(* Bounds                                                                  *)
(***************************************************************************)
MaxSessions == 2
NumWeekends == 2
MaxSent == 2
MaxExtra == 1
MaxMessages == 3
MaxCalendar == 3
MaxOrphans == 1
NumSeries == 3
NumDeliveries == 2

WeekendIds == 1..NumWeekends
SessionIds == 1..MaxSessions

Revisions == {"libsql", "pg", "mongo"}

(***************************************************************************)
(* Data model                                                              *)
(***************************************************************************)
SessionStatus == {"Open", "Delayed", "Cancelled", "Finished", "Unsupported"}

NotificationSetting == {"Notify", "Ignore"}

WeekendStatus == {"Open", "Cancelled", "Done"}

\* Session starts one millisecond apart, so that one instant puts one
\* session on a window boundary and the other next to it.
Starts == {420001, 420002}

\* A weekend start five days back is too old for filter_current_weekend.
OldWeekendStart == 0 - 432000000

\* The instants the clock visits, in order (d1/d2 = start - now for the
\* two starts): d1 = 7 min + 1 ms, 5 min, 4 min 59 s, 3 min, 1 min - 1 ms,
\* 0, -1 ms, -1 min; d2 = d1 + 1 ms.
Instants == <<0, 120001, 121001, 240001, 360002, 420001, 420002, 480001>>

\* Option<T>: None is the empty sequence, Some(x) the sequence of x.
None == <<>>

Some(x) == <<x>>

\* A message row without a hash, and the absence of a message row.  extra
\* counts the further Persistent rows of the series in the messages table.
NoHash == [kind |-> "none", w |-> 0, rows |-> <<>>]

NoMsg == [exists |-> FALSE, hash |-> NoHash, extra |-> 0, live |-> FALSE]

Msg(h) == [exists |-> TRUE, hash |-> h, extra |-> 0, live |-> TRUE]

\* The loops below run with no message for a sweep to select and with no
\* Calendar message.
NoMessages == <<>>

NoCalendar ==
    [rows |-> <<>>, hash |-> <<>>, shown |-> <<>>, last |-> 0,
     creates |-> 0, deletes |-> 0, pending |-> 0,
     tried |-> {}, edits |-> {}, result |-> "none"]

Series == 1..NumSeries
Deliveries == 1..NumDeliveries

\* No delivery of cache_ready yet: the flag is false, no loop is spawned.
NoTask ==
    [running |-> FALSE, pc |-> [d \in Deliveries |-> "new"], loops |-> 0,
     phase |-> "sleep", at |-> 1, cal |-> {}, ran |-> {}, failed |-> {},
     stalled |-> FALSE, shutdown |-> FALSE]

\* chrono: TimeDelta::num_minutes() truncates towards zero.
num_minutes(d) == IF d >= 0 THEN d \div 60000 ELSE 0 - ((0 - d) \div 60000)

\* chrono: TimeDelta::num_days() truncates towards zero.
num_days(d) == IF d >= 0 THEN d \div 86400000 ELSE 0 - ((0 - d) \div 86400000)

SessionsOf(rows, w) == SelectSeq(rows, LAMBDA r : r.weekend = w)

SetStatus(rows, ids, st) ==
    [i \in DOMAIN rows |->
        IF rows[i].id \in ids THEN [rows[i] EXCEPT !.status = st] ELSE rows[i]]

SetWeekendStatus(wk, w, st) == [wk EXCEPT ![w].status = st]

Row(id) == CHOOSE r \in {sessions[i] : i \in DOMAIN sessions} : r.id = id

Bump(cnt, id) == [cnt EXCEPT ![id] = @ + 1]

Terminal(st) == st \in {"Finished", "Cancelled"}

(***************************************************************************)
(* Repository reads                                                        *)
(***************************************************************************)
\* The next weekend of the series that is still Open, by start order
\* (weekend ids are in start order).
OpenWeekends(wk) == {w \in DOMAIN wk : wk[w].status = "Open"}

NextOpenWeekend(wk) ==
    IF OpenWeekends(wk) = {} THEN None
    ELSE Some(CHOOSE w \in OpenWeekends(wk) : \A v \in OpenWeekends(wk) : w <= v)

\* pg revision
get_current_weekend(wk) == NextOpenWeekend(wk)

\* libsql revision
fetch_next_full_weekend_for_series(wk) == NextOpenWeekend(wk)

\* mongo revision: among the weekends that are not done and not older than
\* four days, the one with the largest now - start; the first one the
\* cursor yields wins a tie.
Candidates(wk, t) ==
    {w \in DOMAIN wk : wk[w].status = "Open" /\ ~(num_days(t - wk[w].start) > 4)}

filter_current_weekend(wk, t) ==
    IF Candidates(wk, t) = {} THEN None
    ELSE Some(CHOOSE w \in Candidates(wk, t) :
                \A v \in Candidates(wk, t) :
                    \/ wk[v].start > wk[w].start
                    \/ wk[v].start = wk[w].start /\ w <= v)

(***************************************************************************)
(* Schedulers                                                              *)
(***************************************************************************)
\* libsql revision, helpers.rs: start - now, in whole minutes, is in 0..5
\* (upper end excluded).
ActiveWindow(start, t) ==
    LET m == num_minutes(start - t) IN m >= 0 /\ m < 5

ActiveStatus(st) == st \in {"Open", "Delayed"}

ActivePredicate(r, t) == ActiveStatus(r.status) /\ ActiveWindow(r.start, t)

\* Iterator::find: the first row, in load order, that satisfies the predicate.
check_active_session(rows, t) ==
    LET hits == {i \in DOMAIN rows : ActivePredicate(rows[i], t)}
    IN  IF hits = {} THEN None
        ELSE Some(rows[CHOOSE i \in hits : \A j \in hits : i <= j].id)

\* pg revision, notifs.rs: now - date, in whole minutes, is above -5 and
\* below 0.
NotifyWindow(date, t) ==
    LET difference == num_minutes(t - date) IN difference > -5 /\ difference < 0

\* A status test that lets every status through.
AnyStatus(st) == st = st

\* A status test that stops Finished sessions only.
NotFinished(st) == st # "Finished"

NotifyStatus(st) == st = "Open"

\* check_notify_session walks the rows from index i on.  An Ignore session
\* in the window is marked notified on the way; failAt is the row whose
\* mark_session_notified call fails (0: none does).
RECURSIVE check_notify_from(_, _, _, _)
check_notify_from(rows, i, t, failAt) ==
    IF i > Len(rows) THEN [tag |-> "Ok", session |-> None, marked |-> {}]
    ELSE IF ~NotifyStatus(rows[i].status) \/ ~NotifyWindow(rows[i].start, t)
         THEN check_notify_from(rows, i + 1, t, failAt)
    ELSE IF rows[i].notify = "Notify"
         THEN [tag |-> "Ok", session |-> Some(rows[i].id), marked |-> {}]
    ELSE IF failAt = i
         THEN [tag |-> "Err", session |-> None, marked |-> {}]
    ELSE LET rest == check_notify_from(rows, i + 1, t, failAt)
         IN  [rest EXCEPT !.marked = @ \cup {rows[i].id}]

check_notify_session(rows, t, failAt) == check_notify_from(rows, 1, t, failAt)

\* mongo revision, database.rs
is_notified(r) == r.status = "Finished"

time_until(r, t) == num_minutes(t - r.start)

NoState == [kind |-> "None", index |-> 0]

RECURSIVE get_next_from(_, _, _, _)
get_next_from(rows, i, t, value) ==
    IF i > Len(rows) THEN value
    ELSE IF is_notified(rows[i]) THEN get_next_from(rows, i + 1, t, value)
    ELSE LET tu == time_until(rows[i], t)
             v1 == IF value.kind = "None" /\ tu < -6
                   THEN [kind |-> "FutureSession", index |-> 0]
                   ELSE value
             v2 == IF tu >= -6 /\ tu <= 0
                   THEN [kind |-> "CurrentSession", index |-> i]
                   ELSE v1
         IN  get_next_from(rows, i + 1, t, v2)

get_next_session(rows, t) == get_next_from(rows, 1, t, NoState)

\* libsql revision, FullWeekend::next_session: the Open or Delayed session
\* with preference Notify whose start - now is in [0, 5 min), the earliest
\* start first and the lowest id among equal starts.
InNotifyWindow(start, t) == start - t >= 0 /\ start - t < 300000

Actionable(r, t) ==
    /\ r.status \in {"Open", "Delayed"}
    /\ r.notify = "Notify"
    /\ InNotifyWindow(r.start, t)

next_session(rows, t) ==
    LET hits == {i \in DOMAIN rows : Actionable(rows[i], t)}
    IN  IF hits = {} THEN None
        ELSE Some(rows[CHOOSE i \in hits : \A j \in hits :
                        \/ rows[i].start < rows[j].start
                        \/ rows[i].start = rows[j].start
                           /\ rows[i].id <= rows[j].id].id)

(***************************************************************************)
(* Weekend-terminal decisions                                              *)
(***************************************************************************)
\* pg revision, runner: the weekend is marked done when no session is Open.
has_open_sessions(rows) == \E i \in DOMAIN rows : rows[i].status = "Open"

\* libsql revision, helpers.rs: the weekend is read again; session is the
\* caller's copy of the notified session, whose status stands in for the
\* stored one.
check_expired_weekend(wstatus, rows, session) ==
    IF wstatus = "Done" THEN FALSE
    ELSE \A i \in DOMAIN rows :
            Terminal(IF rows[i].id = session.id
                     THEN session.status ELSE rows[i].status)

\* The mutation of is_done that reads the status of the weekend alone.
status_done(wstatus, rows) == wstatus = "Done"

\* libsql revision, FullWeekend::is_done
is_done(wstatus, rows) ==
    \/ wstatus = "Done"
    \/ rows # <<>> /\ \A i \in DOMAIN rows : Terminal(rows[i].status)

\* libsql revision, FullWeekend::check_is_done(session): session was just
\* notified and counts as finished.
check_is_done(wstatus, rows, id) ==
    \/ wstatus = "Done"
    \/ rows # <<>>
       /\ \A i \in DOMAIN rows : rows[i].id = id \/ Terminal(rows[i].status)

(***************************************************************************)
(* Content hashes                                                          *)
(***************************************************************************)
\* pg revision, impl Hash for Weekend: the session rows in their order
\* (every field, derived Hash) and the rendered text.
WeekendHash(w, rows) == [kind |-> "fp", w |-> w, rows |-> rows]

\* libsql revision, impl Hash for FullWeekend: the sessions ordered by
\* start.
RECURSIVE SortRows(_)
SortRows(S) ==
    IF S = {} THEN <<>>
    ELSE LET m == CHOOSE r \in S : \A q \in S :
                    \/ r.start < q.start
                    \/ r.start = q.start /\ r.id <= q.id
         IN  <<m>> \o SortRows(S \ {m})

FullWeekendHash(w, rows) ==
    [kind |-> "fp", w |-> w,
     rows |-> SortRows({rows[i] : i \in DOMAIN rows})]

\* mongo revision, main.rs: the hash of weekend.to_display(), which renders
\* the name and each session's name and time, not its notified flag.
DisplayHash(w) == [kind |-> "fp", w |-> w, rows |-> <<>>]

\* main.rs sets last_hash to 1337 after it removed the Persistent message.
Removed == [kind |-> "1337", w |-> 0, rows |-> <<>>]

(***************************************************************************)
(* Persistent message steps                                                *)
(***************************************************************************)
\* pg revision: the row that fetch_optional returned goes when the channel
\* delete and the row delete both succeed (a not-found answer counts as a
\* successful delete); further rows stay.
delete_persistent_message(p, ok) ==
    IF ~p.exists \/ ~ok THEN p
    ELSE IF p.extra > 0 THEN [p EXCEPT !.extra = @ - 1]
    ELSE NoMsg

\* pg revision, get_persistent_message: the channel's answer for the
\* message of the row that fetch_optional returned.  The statement has no
\* ORDER BY, so with further rows it may return one whose message is gone.
Fetched(p) ==
    (IF p.live THEN {"found"} ELSE {"notfound"})
    \cup (IF p.extra > 0 THEN {"notfound"} ELSE {})

\* pg revision: found is the answer of the channel for the stored message;
\* ok says whether the calls that post or edit and then write the row
\* succeed.
create_persistent_message(p, h, found, ok) ==
    IF ~p.exists
    THEN IF ok THEN Msg(h) ELSE p
    ELSE IF found = "notfound"
         \* post_new_persistent inserts a row; the old row is not deleted
         THEN IF ok THEN [p EXCEPT !.hash = h, !.extra = @ + 1,
                                   !.live = TRUE]
              ELSE p
    ELSE IF found = "err" \/ p.hash = h THEN p
    ELSE IF ok THEN [p EXCEPT !.hash = h] ELSE p

\* libsql revision: mark_message_expired / mark_weekend_message_for_series_
\* expired take the row out of what fetch_weekend_message_for_series returns.
mark_message_expired(p, ok) == IF p.exists /\ ok THEN NoMsg ELSE p

\* libsql revision, bot/mod.rs 166-266: the step on the weekend's status
\* message.  moved says that last_weekend_id names another weekend; xok, pok
\* and uok are the outcomes of mark_message_expired, of the channel call
\* (post_weekend_message or update_weekend_message) and of the row write
\* (insert_weekend_message or update_message_hash).  An edit of a message
\* that is gone answers not-found, which the loop logs like any error.
weekend_message_calls(p, h, moved) ==
    IF ~p.exists THEN "create"
    ELSE IF p.hash # NoHash /\ p.hash = h THEN "none"
    ELSE IF moved THEN "expire"
    ELSE "edit"

weekend_message_step(p, h, moved, xok, pok, uok) ==
    LET call == weekend_message_calls(p, h, moved)
    IN  IF call = "create" THEN IF pok /\ uok THEN Msg(h) ELSE p
        ELSE IF call = "none" THEN p
        ELSE IF call = "expire" THEN mark_message_expired(p, xok)
        \* a row without a hash is edited and no hash is written (214-238);
        \* update_message_hash runs whatever update_weekend_message
        \* answered (194-212)
        ELSE IF p.hash = NoHash \/ ~uok THEN p
        ELSE [p EXCEPT !.hash = h]

(***************************************************************************)
(* Initial states                                                          *)
(***************************************************************************)
Profiles(r) ==
    IF r = "mongo"
    THEN {<<"Open", "Notify">>, <<"Finished", "Notify">>}
    ELSE ({"Open", "Delayed"} \X NotificationSetting)
         \cup ({"Cancelled", "Finished"} \X {"Notify"})

\* Rows i <= split belong to the first weekend, the others to the second;
\* ids follow the load order.
InitRows(n, split, st, pf) ==
    [i \in 1..n |->
        [id      |-> i,
         weekend |-> IF i <= split THEN 1 ELSE NumWeekends,
         start   |-> st[i],
         status  |-> pf[i][1],
         notify  |-> pf[i][2]]]

InitWeekends(olds, dones) ==
    [w \in WeekendIds |->
        [status |-> IF w \in dones THEN "Done" ELSE "Open",
         start  |-> IF w \in olds THEN OldWeekendStart + w ELSE w]]

\* The states after construction; doneSets are the sets of weekends that
\* may already be Done.  Old weekends matter to filter_current_weekend
\* only.  The start of a row that is Finished or Cancelled from the
\* beginning is read by no scheduler and is held at the first start.
InitWith(doneSets) ==
    /\ rev \in Revisions
    /\ now = Instants[1]
    /\ \E olds \in SUBSET WeekendIds, dones \in doneSets :
        /\ rev # "mongo" => olds = {}
        /\ weekends = InitWeekends(olds, dones)
    /\ \E n \in 0..MaxSessions :
        \E split \in 0..n, st \in [1..n -> Starts],
           pf \in [1..n -> Profiles(rev)] :
            /\ \A i \in 1..n :
                 Terminal(pf[i][1]) => \A s \in Starts : st[i] <= s
            /\ sessions = InitRows(n, split, st, pf)
    /\ \/ persistent = NoMsg /\ last_hash = NoHash
       \/ /\ rev = "mongo"
          /\ filter_current_weekend(weekends, now) # None
          /\ persistent = Msg(DisplayHash(filter_current_weekend(weekends, now)[1]))
          /\ last_hash = persistent.hash
    /\ last_weekend_ids = 0
    /\ alive = TRUE
    /\ sent = [s \in SessionIds |-> 0]
    /\ notified = {}
    /\ finished = {}
    /\ marked_done = {}
    /\ active = None
    /\ expired = None
    /\ task = NoTask
    /\ messages = NoMessages
    /\ calendar = NoCalendar

Init == InitWith({{}})

(***************************************************************************)
(* The clock                                                               *)
(***************************************************************************)
Tick ==
    /\ \E i \in 1..(Len(Instants) - 1) :
        /\ now = Instants[i]
        /\ now' = Instants[i + 1]
    /\ active' = None
    /\ expired' = None
    /\ UNCHANGED <<task, messages, calendar, rev, weekends, sessions, persistent, last_weekend_ids,
                   last_hash, alive, sent, notified, finished,
                   marked_done>>

(***************************************************************************)
(* pg revision: one call of runner                                         *)
(***************************************************************************)
\* A call that is made can fail; one that is not made cannot.
Outcomes(made) == IF made THEN BOOLEAN ELSE {TRUE}

LoopGuard(r) ==
    /\ rev = r
    /\ alive
    /\ \A s \in SessionIds : sent[s] < MaxSent

\* The rows whose mark_session_notified call check_notify_session can make.
IgnoredInWindow(rows, t) ==
    {i \in DOMAIN rows : /\ NotifyStatus(rows[i].status)
                         /\ NotifyWindow(rows[i].start, t)
                         /\ rows[i].notify = "Ignore"}

\* runner with the outcome of each call given: get_current_weekend (wok),
\* mark_weekend_done (dok), delete_persistent_message (pdel), the row whose
\* mark fails in check_notify_session (failAt), the channel's answer for the
\* stored Persistent message (found), create_persistent_message's writes
\* (pok), mark_session_notified (mok), send_message (sok).
runner_with(wok, dok, pdel, failAt, found, pok, mok, sok) ==
    LET cur == get_current_weekend(weekends)
    IN  IF ~wok \/ cur = None
        THEN UNCHANGED <<weekends, sessions, persistent, last_weekend_ids,
                         sent, notified, finished, marked_done>>
        ELSE LET w == cur[1]
                 rows == SessionsOf(sessions, w)
                 done == ~has_open_sessions(rows) /\ dok
                 p1 == IF last_weekend_ids # 0 /\ last_weekend_ids # w
                       THEN delete_persistent_message(persistent, pdel)
                       ELSE persistent
                 cns == check_notify_session(rows, now, failAt)
                 s1 == SetStatus(sessions, cns.marked, "Finished")
                 \* mark_session_notified comes before send_message
                 marked == IF cns.tag = "Ok" /\ cns.session # None /\ mok
                           THEN {cns.session[1]} ELSE {}
             IN  /\ weekends' = IF done
                                THEN SetWeekendStatus(weekends, w, "Done")
                                ELSE weekends
                 /\ marked_done' = IF done THEN marked_done \cup {w}
                                   ELSE marked_done
                 /\ last_weekend_ids' = w
                 /\ persistent' = create_persistent_message(
                                     p1, WeekendHash(w, rows), found, pok)
                 /\ sessions' = SetStatus(s1, marked, "Finished")
                 /\ finished' =
                         finished \cup cns.marked \cup marked
                 /\ notified' = notified \cup marked
                 /\ sent' = IF marked # {} /\ sok
                            THEN Bump(sent, cns.session[1]) ELSE sent

runner ==
    /\ LoopGuard("pg")
    /\ UNCHANGED <<task, messages, calendar, rev, now, last_hash, alive, active, expired>>
    /\ \E wok \in BOOLEAN :
        LET cur == get_current_weekend(weekends)
            made == wok /\ cur # None
            w == IF cur = None THEN 0 ELSE cur[1]
            rows == SessionsOf(sessions, w)
            other == last_weekend_ids # 0 /\ last_weekend_ids # w
        IN  \E dok \in Outcomes(made /\ ~has_open_sessions(rows)),
               pdel \in Outcomes(made /\ other /\ persistent.exists),
               failAt \in {0} \cup IF made THEN IgnoredInWindow(rows, now)
                                   ELSE {} :
              LET p1 == IF other THEN delete_persistent_message(persistent, pdel)
                        ELSE persistent
                  hit == check_notify_session(rows, now, failAt).session # None
              IN  \E found \in IF made /\ p1.exists
                               THEN {"err"} \cup
                                    {f \in Fetched(p1) :
                                        f = "notfound" => p1.extra < MaxExtra}
                               ELSE {"found"},
                     mok \in Outcomes(made /\ hit) :
                    \E pok \in Outcomes(made /\ (\/ ~p1.exists
                                                 \/ found = "notfound"
                                                 \/ /\ found = "found"
                                                    /\ p1.hash # WeekendHash(w, rows))),
                       sok \in Outcomes(made /\ hit /\ mok) :
                      runner_with(wok, dok, pdel, failAt, found, pok, mok, sok)

(***************************************************************************)
(* libsql revision: one pass of the loop of Bot::cache_ready (bot/mod.rs)   *)
(***************************************************************************)
\* The pass with the outcome of each call given:
\* fetch_next_full_weekend_for_series (fok), mark_weekend_done (dok),
\* mark_weekend_message_for_series_expired (eok),
\* fetch_weekend_message_for_series (mok), mark_message_expired (xok),
\* post_weekend_message or update_weekend_message (pok),
\* insert_weekend_message or update_message_hash (uok), send_notification
\* (sok), mark_session_done (msok).
cache_ready_with(fok, dok, eok, mok, xok, pok, uok, sok, msok) ==
    LET cur == fetch_next_full_weekend_for_series(weekends)
    IN  IF ~fok
        THEN UNCHANGED <<weekends, sessions, persistent, last_weekend_ids,
                         sent, notified, finished, marked_done>>
        ELSE IF cur = None
        THEN /\ persistent' = IF mok THEN mark_message_expired(persistent, xok)
                              ELSE persistent
             /\ UNCHANGED <<weekends, sessions, last_weekend_ids, sent,
                            notified, finished, marked_done>>
        ELSE
        LET w == cur[1]
            rows == SessionsOf(sessions, w)
            lwi == IF last_weekend_ids = 0 THEN w ELSE last_weekend_ids
            isd == is_done(weekends[w].status, rows)
            new_hash == FullWeekendHash(w, rows)
        IN  IF isd /\ ~dok
            THEN /\ last_weekend_ids' = lwi
                 /\ UNCHANGED <<weekends, sessions, persistent, sent,
                                notified, finished, marked_done>>
            ELSE
            LET p1 == IF isd THEN mark_message_expired(persistent, eok)
                      ELSE persistent
                call == IF mok THEN weekend_message_calls(p1, new_hash, lwi # w)
                        ELSE "none"
                moved == call = "expire"
                p2 == IF ~mok THEN p1
                      ELSE weekend_message_step(p1, new_hash, lwi # w,
                                                xok, pok, uok)
                session == IF moved THEN None ELSE next_session(rows, now)
                told == session # None /\ sok
                cid == check_is_done(weekends[w].status, rows, session[1])
                done2 == told /\ cid /\ dok
                p3 == IF done2 THEN mark_message_expired(p2, eok) ELSE p2
                wrote == IF told /\ msok THEN {session[1]} ELSE {}
            IN  /\ last_weekend_ids' = IF moved THEN w ELSE lwi
                /\ weekends' = IF isd \/ done2
                               THEN SetWeekendStatus(weekends, w, "Done")
                               ELSE weekends
                /\ marked_done' = IF isd \/ done2 THEN marked_done \cup {w}
                                  ELSE marked_done
                /\ persistent' = p3
                /\ sent' = IF told THEN Bump(sent, session[1]) ELSE sent
                /\ sessions' = SetStatus(sessions, wrote, "Finished")
                /\ finished' = finished \cup wrote
                /\ notified' = notified \cup wrote

\* A notification message sent for session id; row says whether
\* create_new_notifications_msg_db stored its tracked record.
Posted(id, tracked) ==
    [row |-> tracked, live |-> TRUE, answer |-> "none", session |-> id]

\* A Persistent message that post_weekend_message sent and whose record
\* insert_weekend_message failed to store.
Orphan == [row |-> FALSE, live |-> TRUE, answer |-> "none", session |-> 0]

Orphans(msgs) == Cardinality({i \in DOMAIN msgs : msgs[i] = Orphan})

\* Whether the pass, with these outcomes, calls post_weekend_message: it
\* reaches the message step and finds no tracked record (bot/mod.rs 240).
PostsPersistent(fok, mok, dok, eok) ==
    LET cur == fetch_next_full_weekend_for_series(weekends)
        w == cur[1]
        isd == is_done(weekends[w].status, SessionsOf(sessions, w))
        p1 == IF isd THEN mark_message_expired(persistent, eok)
              ELSE persistent
    IN  /\ fok /\ cur # None
        /\ ~(isd /\ ~dok)
        /\ mok
        /\ ~p1.exists

\* One pass with every outcome of its calls.  observe says whether the
\* state keeps the Notification records that create_new_notifications_msg_db
\* (nok) writes after a send; where it does not, `messages` is left alone.
cache_ready_pass(observe) ==
    /\ LoopGuard("libsql")
    /\ UNCHANGED <<task, calendar, rev, now, last_hash, alive, active, expired>>
    /\ \E fok \in BOOLEAN :
        LET cur == fetch_next_full_weekend_for_series(weekends)
            made == fok /\ cur # None
            w == IF cur = None THEN 0 ELSE cur[1]
            rows == SessionsOf(sessions, w)
            session == next_session(rows, now)
            hit == made /\ session # None
            \* a mark_weekend_done call can follow
            closing == made /\ \/ is_done("Open", rows)
                               \/ hit /\ check_is_done("Open", rows, session[1])
            elsewhere == cur = None
                         \/ (last_weekend_ids # 0 /\ last_weekend_ids # w)
        IN  \E mok \in Outcomes(fok), dok \in Outcomes(closing),
               sok \in Outcomes(hit) :
              \E eok \in Outcomes(closing /\ dok /\ (persistent.exists \/ mok)),
                 xok \in Outcomes(fok /\ mok /\ persistent.exists /\ elsewhere),
                 msok \in Outcomes(hit /\ sok) :
                \* the answer to an edit changes no row: only that of a
                \* post is drawn
                \E pok \in Outcomes(made /\ mok
                                     /\ \/ ~persistent.exists
                                        \/ closing /\ dok /\ eok) :
                  \E uok \in Outcomes(
                            made /\ mok
                            /\ \/ pok /\ ~persistent.exists
                               \/ pok /\ closing /\ dok /\ eok
                               \/ /\ persistent.hash # NoHash
                                  /\ persistent.hash # FullWeekendHash(w, rows)
                                  /\ ~elsewhere) :
                    /\ cache_ready_with(fok, dok, eok, mok, xok, pok, uok,
                                        sok, msok)
                    /\ LET lost == /\ observe
                                    /\ PostsPersistent(fok, mok, dok, eok)
                                    /\ pok /\ ~uok
                           m1 == IF lost THEN Append(messages, Orphan)
                                 ELSE messages
                       IN  /\ lost => Orphans(messages) < MaxOrphans
                           /\ \E nok \in IF observe THEN Outcomes(hit /\ sok)
                                         ELSE {TRUE} :
                                messages' =
                                  IF observe /\ sent' # sent
                                  THEN Append(m1,
                                         Posted(CHOOSE id \in SessionIds :
                                                   sent'[id] # sent[id], nok))
                                  ELSE m1

cache_ready == cache_ready_pass(FALSE)

cache_ready_notifs == cache_ready_pass(TRUE)

NextLibsql == cache_ready \/ Tick

InitLibsql == Init /\ rev = "libsql"

SpecLibsql == InitLibsql /\ [][NextLibsql]_vars

\* libsql: the loop with the Notification records it writes, from states in
\* which every session belongs to the first weekend and is still to be
\* notified.
InitNotifs ==
    /\ InitLibsql
    /\ sessions # <<>>
    /\ \A i \in DOMAIN sessions :
        /\ sessions[i].status = "Open"
        /\ sessions[i].notify = "Notify"
        /\ sessions[i].weekend = 1

NextNotifs == cache_ready_notifs \/ Tick

SpecNotifs == InitNotifs /\ [][NextNotifs]_vars

(***************************************************************************)
(* mongo revision: one pass of the loop of main.rs                         *)
(***************************************************************************)
\* The pass with the outcome of each call given: filter_current_weekend
\* (fok), the update_one that stores the weekend (uok), notify_session
\* (nok), delete_persistent_message with remove_persistent_bot_message
\* (xok), create_or_update_persistent_message (cok).
main_loop_with(fok, uok, nok, xok, cok) ==
    LET cur == filter_current_weekend(weekends, now)
    IN  IF ~fok \/ cur = None
        THEN UNCHANGED <<weekends, sessions, persistent, last_hash, alive,
                         sent, notified, finished, marked_done>>
        ELSE
        LET w == cur[1]
            rows == SessionsOf(sessions, w)
            h == DisplayHash(w)
            sess == get_next_session(rows, now)
            current == sess.kind = "CurrentSession"
            none == sess.kind = "None"
            id == rows[sess.index].id
            \* the result of update_one is dropped
            wrote == IF current /\ uok THEN {id} ELSE {}
            removed == none /\ xok
            refresh == ~removed /\ h # last_hash
        IN  /\ sessions' = SetStatus(sessions, wrote, "Finished")
            /\ finished' = finished \cup wrote
            /\ notified' = notified \cup wrote
            /\ sent' = IF current /\ nok THEN Bump(sent, id) ELSE sent
            /\ weekends' = IF none /\ uok
                           THEN SetWeekendStatus(weekends, w, "Done")
                           ELSE weekends
            /\ marked_done' = IF none /\ uok THEN marked_done \cup {w}
                              ELSE marked_done
            /\ last_hash' = IF removed THEN Removed
                            ELSE IF refresh THEN h ELSE last_hash
            /\ persistent' = IF removed THEN NoMsg
                             ELSE IF refresh /\ cok THEN Msg(h)
                             ELSE persistent
            \* exit(0x0100)
            /\ alive' = ~(refresh /\ ~cok)

main_loop ==
    /\ LoopGuard("mongo")
    /\ UNCHANGED <<task, messages, calendar, rev, now, last_weekend_ids, active, expired>>
    /\ \E fok \in BOOLEAN :
        LET cur == filter_current_weekend(weekends, now)
            made == fok /\ cur # None
            w == IF cur = None THEN 0 ELSE cur[1]
            sess == get_next_session(SessionsOf(sessions, w), now)
        IN  \E uok \in Outcomes(made /\ sess.kind # "FutureSession"),
               nok \in Outcomes(made /\ sess.kind = "CurrentSession"),
               xok \in Outcomes(made /\ sess.kind = "None") :
              \E cok \in Outcomes(made /\ ~(sess.kind = "None" /\ xok)
                                       /\ DisplayHash(w) # last_hash) :
                main_loop_with(fok, uok, nok, xok, cok)

NextMongo == main_loop \/ Tick

InitMongo == Init /\ rev = "mongo"

SpecMongo == InitMongo /\ [][NextMongo]_vars

NextPg == runner \/ Tick

InitPg == Init /\ rev = "pg"

SpecPg == InitPg /\ [][NextPg]_vars

(***************************************************************************)
(* All three revisions                                                     *)
(***************************************************************************)
Next == cache_ready \/ runner \/ main_loop \/ Tick

Spec == Init /\ [][Next]_vars

\* The loops over repositories in which, in the pg and libsql revisions,
\* the first weekend was Cancelled by an administrator (the mongo revision
\* stores a done flag only).
InitTerminal ==
    /\ rev \in Revisions
    /\ now = Instants[1]
    /\ \E olds \in SUBSET WeekendIds, cancels \in SUBSET {1} :
        /\ rev # "mongo" => olds = {} /\ cancels = {1}
        /\ rev = "mongo" => cancels = {}
        /\ weekends = [w \in WeekendIds |->
                         IF w \in cancels
                         THEN [InitWeekends(olds, {})[w]
                                 EXCEPT !.status = "Cancelled"]
                         ELSE InitWeekends(olds, {})[w]]
    /\ \E n \in 0..MaxSessions :
        \E split \in 0..n, st \in [1..n -> Starts],
           pf \in [1..n -> Profiles(rev)] :
            /\ \A i \in 1..n :
                 Terminal(pf[i][1]) => \A s \in Starts : st[i] <= s
            /\ sessions = InitRows(n, split, st, pf)
    /\ persistent = NoMsg
    /\ last_hash = NoHash
    /\ last_weekend_ids = 0
    /\ alive = TRUE
    /\ sent = [s \in SessionIds |-> 0]
    /\ notified = {}
    /\ finished = {}
    /\ marked_done = {}
    /\ active = None
    /\ expired = None
    /\ task = NoTask
    /\ messages = NoMessages
    /\ calendar = NoCalendar

SpecTerminal == InitTerminal /\ [][Next]_vars

(***************************************************************************)
(* The status message in the channel                                       *)
(***************************************************************************)
\* The message of the tracked row is deleted in the channel by someone
\* else; the code meets this as the NOT_FOUND answer of get_message
\* (notifs.rs 124-140) or of edit_message (helpers.rs 381-396).
ChannelDelete ==
    /\ persistent.exists
    /\ persistent.live
    /\ persistent' = [persistent EXCEPT !.live = FALSE]
    /\ UNCHANGED <<task, messages, calendar, rev, now, weekends, sessions, last_weekend_ids, last_hash,
                   alive, sent, notified, finished, marked_done, active,
                   expired>>

\* pg and libsql with no row, or with a row written before the loop
\* started: one whose hash is that of the first weekend without sessions
\* and, in libsql where the column is nullable (bot/mod.rs 173, 214), one
\* without a hash.
InitChannel ==
    /\ rev \in {"pg", "libsql"}
    /\ now = Instants[1]
    /\ weekends = InitWeekends({}, {})
    /\ \E n \in 1..MaxSessions :
        \E split \in 1..n, st \in [1..n -> Starts],
           pf \in [1..n -> {<<"Open", "Notify">>, <<"Finished", "Notify">>}] :
            /\ \A i \in 1..n :
                 Terminal(pf[i][1]) => \A t \in Starts : st[i] <= t
            /\ sessions = InitRows(n, split, st, pf)
    /\ persistent \in {NoMsg,
                        Msg(IF rev = "pg" THEN WeekendHash(1, <<>>)
                            ELSE FullWeekendHash(1, <<>>))}
                       \cup IF rev = "libsql" THEN {Msg(NoHash)} ELSE {}
    /\ last_hash = NoHash
    /\ last_weekend_ids = 0
    /\ alive = TRUE
    /\ sent = [s \in SessionIds |-> 0]
    /\ notified = {}
    /\ finished = {}
    /\ marked_done = {}
    /\ active = None
    /\ expired = None
    /\ task = NoTask
    /\ messages = NoMessages
    /\ calendar = NoCalendar

NextPgChannel == runner \/ ChannelDelete \/ Tick

InitPgChannel == InitChannel /\ rev = "pg"

SpecPgChannel == InitPgChannel /\ [][NextPgChannel]_vars

NextLibsqlChannel == cache_ready \/ ChannelDelete \/ Tick

InitLibsqlChannel == InitChannel /\ rev = "libsql"

SpecLibsqlChannel == InitLibsqlChannel /\ [][NextLibsqlChannel]_vars

(***************************************************************************)
(* The sweeps that delete tracked messages                                 *)
(***************************************************************************)
MessageIds == 1..MaxMessages

\* A message a sweep selects: row says that its tracked record is in the
\* repository, live that its message exists in the channel, answer what
\* the channel answered to the last delete a sweep issued for it.
ChannelAnswers == {"ok", "notfound", "error"}

\* What the channel can answer to the delete of message m: not-found exactly
\* when the message is gone, and a transient error at any time.
Answers(m) == {"error"} \cup IF m.live THEN {"ok"} ELSE {"notfound"}

\* The mutation of CountsAsDeleted that takes not-found for a failure.
OnlyOk(a) == a = "ok"

\* helpers.rs 53-67, notifs.rs 50-63: the answers after which the sweep
\* goes on to delete the tracked record.
CountsAsDeleted(a) == a \in {"ok", "notfound"}

\* A delete that the channel answered: the message is gone after ok.
Answered(m, a) == [m EXCEPT !.answer = a,
                            !.live = IF a = "ok" THEN FALSE ELSE @]

\* check_expired_messages from the i-th selected message on; ans is the
\* channel's answer per message, failAt the message whose delete_message
\* call fails (0: none), which ends the sweep through `?`.
RECURSIVE sweep_from(_, _, _, _)
sweep_from(msgs, i, ans, failAt) ==
    IF i > Len(msgs) THEN msgs
    ELSE IF ~msgs[i].row THEN sweep_from(msgs, i + 1, ans, failAt)
    ELSE LET m == Answered(msgs[i], ans[i])
         IN  IF ~CountsAsDeleted(ans[i])
             THEN sweep_from([msgs EXCEPT ![i] = m], i + 1, ans, failAt)
             ELSE IF failAt = i THEN [msgs EXCEPT ![i] = m]
             ELSE sweep_from([msgs EXCEPT ![i] = [m EXCEPT !.row = FALSE]],
                             i + 1, ans, failAt)

\* eok is the outcome of expired_messages.
check_expired_messages_with(eok, ans, failAt) ==
    messages' = IF eok THEN sweep_from(messages, 1, ans, failAt)
                ELSE messages

\* The answers a sweep can get for the rows it has.
AnswerFns(msgs) ==
    {ans \in [DOMAIN msgs -> ChannelAnswers] :
        \A i \in DOMAIN msgs :
            IF msgs[i].row THEN ans[i] \in Answers(msgs[i])
            ELSE ans[i] = "error"}

SweepFrame ==
    UNCHANGED <<task, calendar, rev, now, weekends, sessions, persistent,
                last_weekend_ids, last_hash, alive, sent, notified,
                finished, marked_done, active, expired>>

check_expired_messages ==
    /\ rev = "libsql"
    /\ \E i \in DOMAIN messages : messages[i].row
    /\ SweepFrame
    /\ \E eok \in BOOLEAN, ans \in AnswerFns(messages),
          failAt \in {0} \cup DOMAIN messages :
        /\ failAt # 0 => messages[failAt].row /\ CountsAsDeleted(ans[failAt])
        /\ ~eok => failAt = 0 /\ \A i \in DOMAIN messages : ans[i] = "error"
        /\ check_expired_messages_with(eok, ans, failAt)

\* pg revision, remove_old_notifs: every selected message is deleted in the
\* channel (join_all), errors are printed, and one DELETE then removes the
\* rows of the selection.  fok and dok are the outcomes of the SELECT and
\* of the DELETE.
old_notifs_removed(msgs, fok, ans, dok) ==
    IF ~fok THEN msgs
    ELSE [i \in DOMAIN msgs |->
            IF ~msgs[i].row THEN msgs[i]
            ELSE [Answered(msgs[i], ans[i])
                    EXCEPT !.row = IF dok THEN FALSE ELSE @]]

remove_old_notifs_with(fok, ans, dok) ==
    messages' = old_notifs_removed(messages, fok, ans, dok)

remove_old_notifs ==
    /\ rev = "pg"
    /\ \E i \in DOMAIN messages : messages[i].row
    /\ SweepFrame
    /\ \E fok \in BOOLEAN, ans \in AnswerFns(messages) :
        \E dok \in Outcomes(fok) :
            /\ ~fok => \A i \in DOMAIN messages : ans[i] = "error"
            /\ remove_old_notifs_with(fok, ans, dok)

\* Someone else deletes the message of a tracked record in the channel.
ChannelDeleteMessage ==
    /\ \E i \in DOMAIN messages :
        /\ messages[i].row
        /\ messages[i].live
        /\ messages' = [messages EXCEPT ![i].live = FALSE]
    /\ SweepFrame

\* The selected messages at the start: tracked and in the channel, with no
\* delete issued yet.
InitSweep ==
    /\ rev \in {"libsql", "pg"}
    /\ now = Instants[1]
    /\ weekends = InitWeekends({}, {})
    /\ sessions = <<>>
    /\ persistent = NoMsg
    /\ last_hash = NoHash
    /\ last_weekend_ids = 0
    /\ alive = TRUE
    /\ sent = [s \in SessionIds |-> 0]
    /\ notified = {}
    /\ finished = {}
    /\ marked_done = {}
    /\ active = None
    /\ expired = None
    /\ task = NoTask
    /\ calendar = NoCalendar
    /\ messages = [i \in MessageIds |->
                      [row |-> TRUE, live |-> TRUE, answer |-> "none"]]

NextSweep == check_expired_messages \/ remove_old_notifs \/ ChannelDeleteMessage

SpecSweep == InitSweep /\ [][NextSweep]_vars

\* ---------------------------------------------------------------------
\* The sweeps with the selection of their query, over the hours after a
\* notification was posted
\* ---------------------------------------------------------------------
ThirtyMinutes == 1800000

\* The estimated durations of a session, in milliseconds.
Durations == {3600000, 7200000}

Hours == <<0, 1800001, 3600001, 5400001, 7200001>>

\* The tracked record of a notification posted at `posted` for a session
\* of duration d: the libsql insert stores the expiry, the pg row has none.
Notification(posted, d) ==
    [row |-> TRUE, live |-> TRUE, answer |-> "none",
     posted |-> posted, duration |-> d,
     expiry |-> IF rev = "libsql" THEN <<posted + d>> ELSE <<>>]

\* The rows the query of each sweep returns at time `now`.
Selected(m) ==
    /\ m.row
    /\ IF rev = "libsql" THEN m.expiry[1] < now
       ELSE m.posted > now + ThirtyMinutes

Mask(msgs) ==
    [i \in DOMAIN msgs |->
        IF Selected(msgs[i]) THEN msgs[i] ELSE [msgs[i] EXCEPT !.row = FALSE]]

Unmask(msgs, swept) ==
    [i \in DOMAIN msgs |-> IF Selected(msgs[i]) THEN swept[i] ELSE msgs[i]]

\* One sweep at time `now`, query included; the outcomes are those of
\* check_expired_messages_with and remove_old_notifs_with.
sweep_with(qok, ans, failAt, dok) ==
    messages' =
        IF rev = "libsql"
        THEN IF qok
             THEN Unmask(messages, sweep_from(Mask(messages), 1, ans, failAt))
             ELSE messages
        ELSE Unmask(messages, old_notifs_removed(Mask(messages), qok, ans, dok))

sweep ==
    /\ SweepFrame
    /\ \E qok \in BOOLEAN, ans \in AnswerFns(Mask(messages)),
          failAt \in {0} \cup DOMAIN messages, dok \in BOOLEAN :
        /\ failAt # 0 => /\ rev = "libsql"
                         /\ Selected(messages[failAt])
                         /\ CountsAsDeleted(ans[failAt])
        /\ rev = "libsql" => dok
        /\ ~qok => failAt = 0 /\ dok
                   /\ \A i \in DOMAIN messages : ans[i] = "error"
        /\ sweep_with(qok, ans, failAt, dok)

\* A sweep in which no repository call fails and the channel answers
\* success or not-found.
sweep_ok ==
    /\ SweepFrame
    /\ \E ans \in AnswerFns(Mask(messages)) :
        /\ \A i \in DOMAIN messages :
             Selected(messages[i]) => ans[i] # "error"
        /\ sweep_with(TRUE, ans, 0, TRUE)

Later ==
    /\ \E i \in 1..(Len(Hours) - 1) :
        /\ now = Hours[i]
        /\ now' = Hours[i + 1]
    /\ UNCHANGED <<task, messages, calendar, rev, weekends, sessions,
                   persistent, last_weekend_ids, last_hash, alive, sent,
                   notified, finished, marked_done, active, expired>>

\* Notifications that were posted at the first instant.
InitExpiry ==
    /\ rev \in {"libsql", "pg"}
    /\ now = Hours[1]
    /\ weekends = InitWeekends({}, {})
    /\ sessions = <<>>
    /\ persistent = NoMsg
    /\ last_hash = NoHash
    /\ last_weekend_ids = 0
    /\ alive = TRUE
    /\ sent = [s \in SessionIds |-> 0]
    /\ notified = {}
    /\ finished = {}
    /\ marked_done = {}
    /\ active = None
    /\ expired = None
    /\ task = NoTask
    /\ calendar = NoCalendar
    /\ \E d \in [MessageIds -> Durations] :
        messages = [i \in MessageIds |-> Notification(now, d[i])]

NextExpiry == sweep \/ ChannelDeleteMessage \/ Later

\* Time passes, and sweeps whose calls succeed happen again and again.
SpecExpiry ==
    /\ InitExpiry
    /\ [][NextExpiry]_vars
    /\ WF_vars(Later)
    /\ SF_vars(sweep_ok)

(***************************************************************************)
(* The Calendar messages                                                   *)
(***************************************************************************)
\* calendar.rows holds one entry per tracked Calendar record, in the order
\* of the repository: TRUE while its message exists in the channel; hash
\* holds the hash stored in each record and shown the hash of the content
\* its message displays.  last is last_invocation; creates, deletes and
\* pending count the channel calls of the last reconciliation and how many
\* of them it awaited at once; tried and edits are the records for which the
\* last edit pass issued an edit and for which the edit succeeded, result
\* is what that pass returned.

\* The weekends a calendar lists (fetch_full_weekends_for_series,
\* get_weekends_without_sessions).
CalendarWeekends(wk) == Cardinality(OpenWeekends(wk))

\* The listed weekends ordered by start.
RECURSIVE ByStart(_, _)
ByStart(wk, S) ==
    IF S = {} THEN <<>>
    ELSE LET w == CHOOSE x \in S : \A y \in S : wk[x].start <= wk[y].start
         IN  <<w>> \o ByStart(wk, S \ {w})

CalendarList(wk) == ByStart(wk, OpenWeekends(wk))

\* The hash of the i-th listed weekend, as the revision computes it.
PairHash(i) ==
    LET w == CalendarList(weekends)[i]
    IN  IF rev = "pg" THEN WeekendHash(w, SessionsOf(sessions, w))
        ELSE FullWeekendHash(w, SessionsOf(sessions, w))

\* The content of a reserved message, and the hash 0 that
\* reserve_calendar_message stores with it (calendar.rs 56).
Placeholder == [kind |-> "reserved", w |-> 0, rows |-> <<>>]

\* create_new_calendar_message stores no hash (helpers.rs 87).
ReservedHash == IF rev = "pg" THEN Placeholder ELSE NoHash

\* The mutation of calendar_diff that reserves a message per weekend.
calendar_all(w, m) == w

\* helpers.rs 138, calendar.rs 76: the number of messages to reserve.
calendar_diff(w, m) == w - m

Reserved(k) == [i \in 1..k |-> TRUE]

\* The loop of create calls, each awaited before the next; failAt is the
\* call that fails (0: none), which ends the loop.
reserve_loop(cal, diff, failAt) ==
    LET made == IF failAt = 0 THEN diff ELSE failAt - 1
        calls == IF failAt = 0 THEN diff ELSE failAt
    IN  [cal EXCEPT !.rows = @ \o Reserved(made),
                    !.hash = @ \o [i \in 1..made |-> ReservedHash],
                    !.shown = @ \o [i \in 1..made |-> Placeholder],
                    !.creates = calls,
                    !.deletes = 0,
                    !.pending = IF calls > 0 THEN 1 ELSE 0]

\* helpers.rs 98-126, called diff times: the channel delete of the latest
\* record's message; after a successful delete the function returns at
\* line 120, before delete_message, and only a not-found answer reaches it.
RECURSIVE delete_loop(_, _, _, _)
delete_loop(cal, k, call, failAt) ==
    IF k = 0 \/ cal.rows = <<>> THEN cal
    ELSE LET n == Len(cal.rows)
             issued == [cal EXCEPT !.deletes = @ + 1, !.pending = 1]
         IN  IF call = failAt THEN issued
             ELSE IF cal.rows[n]
             THEN delete_loop([issued EXCEPT !.rows[n] = FALSE],
                              k - 1, call + 1, failAt)
             ELSE delete_loop([issued EXCEPT
                                  !.rows = SubSeq(@, 1, n - 1),
                                  !.hash = SubSeq(@, 1, n - 1),
                                  !.shown = SubSeq(@, 1, n - 1)],
                              k - 1, call + 1, failAt)

\* libsql revision, create_calendar on the records cal: mok and wok are the
\* outcomes of fetch_calendar_messages and fetch_full_weekends_for_series.
create_calendar_with(cal, mok, wok, failAt) ==
    LET w == CalendarWeekends(weekends)
        m == Len(cal.rows)
        idle == [cal EXCEPT !.creates = 0, !.deletes = 0, !.pending = 0]
    IN  IF ~mok \/ ~wok \/ m = w THEN idle
        ELSE IF m < w THEN reserve_loop(idle, calendar_diff(w, m), failAt)
        ELSE delete_loop(idle, m - w, 1, failAt)

\* The first n records whose stored hash differs from the hash of the
\* weekend at their position (helpers.rs 182, calendar.rs 117).
Due(cal, n) == {i \in 1..n : cal.hash[i] # PairHash(i)}

\* The mutation of Edited under which the first failing edit ends the pass.
EditedUntilFailure(due, failed) == {i \in due : \A j \in failed : i < j}

\* helpers.rs 213-217, calendar.rs 130-135: a failed edit is logged and the
\* other pairs are still edited.
Edited(due, failed) == due \ failed

\* The edits of the first n pairs: fails are the pairs whose edit the
\* channel fails, hfails those whose hash write fails; the edit of a
\* message that is gone fails as well.
edit_pairs(cal, n, fails, hfails) ==
    LET due == Due(cal, n)
        done == Edited(due, fails \cup {i \in due : ~cal.rows[i]})
    IN  [cal EXCEPT
            !.shown = [i \in DOMAIN @ |->
                          IF i \in done THEN PairHash(i) ELSE @[i]],
            !.hash = [i \in DOMAIN @ |->
                         IF i \in done \ hfails THEN PairHash(i) ELSE @[i]],
            !.tried = due,
            !.edits = done,
            !.result = "Ok"]

NoEdit(cal) == [cal EXCEPT !.tried = {}, !.edits = {}, !.result = "Err"]

\* libsql revision, edit_calendar on the records cal: the pass returns
\* NotSameLen when the counts differ (helpers.rs 174-176).
edit_calendar_with(cal, mok, wok, fails, hfails) ==
    IF ~mok \/ ~wok \/ Len(cal.rows) # CalendarWeekends(weekends)
    THEN NoEdit(cal)
    ELSE edit_pairs(cal, Len(cal.rows), fails, hfails)

Min(a, b) == IF a < b THEN a ELSE b

\* pg revision, update_calendar: fok says that its three fetches succeed;
\* zip pairs the weekends with the messages up to the shorter of the two
\* (calendar.rs 112).
update_calendar_with(cal, fok, fails, hfails) ==
    IF ~fok THEN NoEdit(cal)
    ELSE edit_pairs(cal, Min(Len(cal.rows), CalendarWeekends(weekends)),
                    fails, hfails)

CalendarFrame ==
    UNCHANGED <<task, messages, rev, now, weekends, sessions, persistent,
                last_weekend_ids, last_hash, alive, sent, notified,
                finished, marked_done, active, expired>>

\* The mutation of calendar_due that lets every iteration reconcile.
AlwaysDue == TRUE

\* bot/mod.rs 83-84: whole seconds since last_invocation, more than 300.
calendar_due == (now - calendar.last) \div 1000 > 60 * 5

\* The calls create_calendar issues.
CalendarCalls(cal) ==
    LET w == CalendarWeekends(weekends)
        m == Len(cal.rows)
    IN  IF m < w THEN w - m ELSE m - w

\* bot/mod.rs 83-109: when more than five minutes have passed since
\* last_invocation, create_calendar and then edit_calendar run, the second
\* whatever the first returned.
calendar_pass_with(mok, wok, failAt, emok, ewok, fails, hfails) ==
    calendar' = edit_calendar_with(
                    create_calendar_with([calendar EXCEPT !.last = now],
                                         mok, wok, failAt),
                    emok, ewok, fails, hfails)

calendar_pass ==
    /\ rev = "libsql"
    /\ calendar_due
    /\ CalendarFrame
    /\ \E mok \in BOOLEAN, emok \in BOOLEAN :
        \E wok \in Outcomes(mok), ewok \in Outcomes(emok) :
            \E failAt \in 0..(IF mok /\ wok THEN CalendarCalls(calendar)
                              ELSE 0) :
                LET cal == create_calendar_with(calendar, mok, wok, failAt)
                    due == IF emok /\ ewok
                              /\ Len(cal.rows) = CalendarWeekends(weekends)
                           THEN Due(cal, Len(cal.rows)) ELSE {}
                IN  \E fails \in SUBSET {i \in due : cal.rows[i]} :
                        \E hfails \in SUBSET (due \ fails) :
                            calendar_pass_with(mok, wok, failAt, emok, ewok,
                                               fails, hfails)

\* pg revision, populate_calendar: wok and mok are the outcomes of
\* get_weekends_without_sessions and get_calendar_notifs; a failing
\* reserve_calendar_message breaks the loop.
populate_calendar_with(wok, mok, failAt) ==
    LET w == CalendarWeekends(weekends)
        m == Len(calendar.rows)
        idle == [calendar EXCEPT !.creates = 0, !.deletes = 0,
                                 !.pending = 0]
    IN  calendar' =
            IF ~wok \/ ~mok \/ ~(m < w) THEN idle
            ELSE reserve_loop(idle, calendar_diff(w, m), failAt)

populate_calendar ==
    /\ rev = "pg"
    /\ CalendarFrame
    /\ \E wok \in BOOLEAN :
        \E mok \in Outcomes(wok) :
            LET w == CalendarWeekends(weekends)
                m == Len(calendar.rows)
                calls == IF wok /\ mok /\ m < w THEN w - m ELSE 0
            IN  \E failAt \in 0..calls :
                    populate_calendar_with(wok, mok, failAt)

update_calendar ==
    /\ rev = "pg"
    /\ CalendarFrame
    /\ \E fok \in BOOLEAN :
        LET due == IF fok
                   THEN Due(calendar, Min(Len(calendar.rows),
                                          CalendarWeekends(weekends)))
                   ELSE {}
        IN  \E fails \in SUBSET {i \in due : calendar.rows[i]} :
                \E hfails \in SUBSET (due \ fails) :
                    calendar' = update_calendar_with(calendar, fok,
                                                     fails, hfails)

\* Someone else deletes a Calendar message in the channel.
ChannelDeleteCalendar ==
    /\ \E i \in DOMAIN calendar.rows :
        /\ calendar.rows[i]
        /\ calendar' = [calendar EXCEPT !.rows[i] = FALSE]
    /\ CalendarFrame

\* Any number of the weekends is Open and up to MaxCalendar Calendar
\* messages are tracked and in the channel, as they were reserved.
InitCalendar ==
    /\ rev \in {"libsql", "pg"}
    /\ now = Instants[1]
    /\ \E dones \in SUBSET WeekendIds : weekends = InitWeekends({}, dones)
    /\ sessions = <<>>
    /\ persistent = NoMsg
    /\ last_hash = NoHash
    /\ last_weekend_ids = 0
    /\ alive = TRUE
    /\ sent = [s \in SessionIds |-> 0]
    /\ notified = {}
    /\ finished = {}
    /\ marked_done = {}
    /\ active = None
    /\ expired = None
    /\ task = NoTask
    /\ messages = NoMessages
    /\ \E m \in 0..MaxCalendar :
        calendar = [NoCalendar EXCEPT
                       !.rows = Reserved(m),
                       !.hash = [i \in 1..m |-> ReservedHash],
                       !.shown = [i \in 1..m |-> Placeholder]]

NextCalendar ==
    \/ calendar_pass
    \/ populate_calendar
    \/ update_calendar
    \/ ChannelDeleteCalendar
    \/ Tick

SpecCalendar == InitCalendar /\ [][NextCalendar]_vars

(***************************************************************************)
(* The schedulers and the weekend-terminal decisions, called on their own  *)
(***************************************************************************)
Answer(fn, w, kind, session) ==
    Some([fn |-> fn, w |-> w, kind |-> kind, session |-> session])

Verdict(fn, w, id, status, result) ==
    Some([fn |-> fn, w |-> w, id |-> id, status |-> status,
          result |-> result])

Idle == UNCHANGED <<task, messages, calendar, rev, now, weekends, persistent, last_weekend_ids,
                    last_hash, alive, sent, notified, marked_done>>

\* helpers.rs, libsql revision
CheckActiveSession ==
    /\ rev = "libsql"
    /\ LET cur == fetch_next_full_weekend_for_series(weekends)
           w == IF cur = None THEN 0 ELSE cur[1]
       IN  active' = Answer("check_active_session", w, "Ok",
                            check_active_session(SessionsOf(sessions, w), now))
    /\ Idle
    /\ UNCHANGED <<sessions, finished, expired>>

\* notifs.rs, pg revision: the call writes the Finished status of the
\* Ignore sessions it passes.
CheckNotifySession ==
    /\ rev = "pg"
    /\ \E w \in WeekendIds :
        LET rows == SessionsOf(sessions, w)
        IN  \E failAt \in {0} \cup IgnoredInWindow(rows, now) :
              LET cns == check_notify_session(rows, now, failAt)
              IN  /\ active' = Answer("check_notify_session", w, cns.tag,
                                      cns.session)
                  /\ sessions' = SetStatus(sessions, cns.marked, "Finished")
                  /\ finished' = finished \cup cns.marked
    /\ Idle
    /\ UNCHANGED expired

\* database.rs, mongo revision
GetNextSession ==
    /\ rev = "mongo"
    /\ \E w \in WeekendIds :
        LET rows == SessionsOf(sessions, w)
            sess == get_next_session(rows, now)
        IN  active' = Answer("get_next_session", w, sess.kind,
                             IF sess.kind = "CurrentSession"
                             THEN Some(rows[sess.index].id) ELSE None)
    /\ Idle
    /\ UNCHANGED <<sessions, finished, expired>>

\* helpers.rs, libsql revision: the caller hands in a weekend and its copy
\* of one of the weekend's sessions, as stored or already set to Finished.
CheckExpiredWeekend ==
    /\ rev = "libsql"
    /\ \E i \in DOMAIN sessions, st \in SessionStatus :
        /\ st \in {sessions[i].status, "Finished"}
        /\ LET w == sessions[i].weekend
           IN  expired' = Verdict("check_expired_weekend", w, sessions[i].id, st,
                              check_expired_weekend(weekends[w].status,
                                  SessionsOf(sessions, w),
                                  [id |-> sessions[i].id, status |-> st]))
    /\ Idle
    /\ UNCHANGED <<sessions, finished, active>>

\* notifs.rs, pg revision: the decision runner takes on the weekend that
\* get_current_weekend returned.
RunnerDecision ==
    /\ rev = "pg"
    /\ get_current_weekend(weekends) # None
    /\ LET w == get_current_weekend(weekends)[1]
       IN  expired' = Verdict("runner", w, 0, "",
                              ~has_open_sessions(SessionsOf(sessions, w)))
    /\ Idle
    /\ UNCHANGED <<sessions, finished, active>>

NextSched ==
    \/ CheckActiveSession
    \/ CheckNotifySession
    \/ GetNextSession
    \/ CheckExpiredWeekend
    \/ RunnerDecision
    \/ Tick

InitSched == InitWith(SUBSET WeekendIds)

SpecSched == InitSched /\ [][NextSched]_vars

\* ---------------------------------------------------------------------
\* The cache_ready guard and the spawned loop (bot/mod.rs, libsql revision)
\* ---------------------------------------------------------------------

\* What the loop does after an error of a per-series call: "continue"
\* skips the rest of this series' steps, "log" goes on with them.
BreakOnError(site) == "break"

AfterError(site) ==
    IF site \in {"fetch_next_full_weekend_for_series",
                 "fetch_weekend_message_for_series",
                 "mark_weekend_done", "mark_message_expired_moved",
                 "send_notification"}
    THEN "continue"
    ELSE "log"

CalendarSites == {"create_calendar", "edit_calendar"}

SeriesSites ==
    {"fetch_next_full_weekend_for_series", "fetch_weekend_message_for_series",
     "mark_message_expired", "mark_weekend_done",
     "mark_weekend_message_for_series_expired", "fetch_weekend_message",
     "mark_message_expired_moved", "update_weekend_message",
     "update_message_hash", "post_weekend_message", "insert_weekend_message",
     "send_notification", "mark_session_done",
     "create_new_notifications_msg_db"}

TaskFrame ==
    UNCHANGED <<messages, calendar, rev, now, weekends, sessions, persistent,
                last_weekend_ids, last_hash, sent, notified, finished,
                marked_done, active, expired>>

\* cache_ready up to the guard: returns when the flag is already set.
cache_ready_load(d) ==
    /\ alive
    /\ task.pc[d] = "new"
    /\ task' = [task EXCEPT
                   !.pc[d] = IF task.running THEN "returned" ELSE "passed"]
    /\ UNCHANGED alive
    /\ TaskFrame

\* cache_ready after the guard: sets the flag, acquires a connection
\* (unwrap) and spawns the loop.
cache_ready_spawn(d) ==
    /\ alive
    /\ task.pc[d] = "passed"
    /\ \E aok \in BOOLEAN :
        task' = [task EXCEPT
                    !.running = TRUE,
                    !.pc[d] = IF aok THEN "spawned" ELSE "panicked",
                    !.loops = IF aok THEN @ + 1 ELSE @]
    /\ UNCHANGED alive
    /\ TaskFrame

LoopRuns == alive /\ task.loops > 0 /\ ~task.stalled

\* The head of one iteration: sleep, yield_now, check_expired_messages,
\* then the test whether the calendar is due.
loop_begin ==
    /\ LoopRuns
    /\ task.phase = "sleep"
    /\ \E due \in BOOLEAN :
        task' = [task EXCEPT
                    !.phase = IF due THEN "calendar" ELSE "series",
                    !.at = 1, !.cal = {}, !.ran = {}, !.failed = {}]
    /\ UNCHANGED alive
    /\ TaskFrame

\* The place of the for loop after the steps of series task.at.
for_next(t, effect, after) ==
    IF effect = "break" THEN [t EXCEPT !.phase = "sleep", !.at = 1]
    ELSE IF t.at = NumSeries THEN [t EXCEPT !.phase = after, !.at = 1]
    ELSE [t EXCEPT !.at = @ + 1]

\* One series of the calendar for loop: create_calendar, edit_calendar.
calendar_for ==
    /\ LoopRuns
    /\ task.phase = "calendar"
    /\ \E site \in CalendarSites \cup {"none"}, kind \in {"err", "stall"} :
        LET t == [task EXCEPT !.cal = @ \cup {task.at}]
        IN  task' =
                IF site = "none" THEN for_next(t, "log", "series")
                ELSE IF kind = "stall" THEN [t EXCEPT !.stalled = TRUE]
                ELSE for_next([t EXCEPT !.failed = @ \cup {task.at}],
                              "log", "series")
    /\ UNCHANGED alive
    /\ TaskFrame

\* One series of the per-series for loop.
series_for ==
    /\ LoopRuns
    /\ task.phase = "series"
    /\ \E site \in SeriesSites \cup {"none"}, kind \in {"err", "stall"} :
        LET t == [task EXCEPT !.ran = @ \cup {task.at}]
        IN  task' =
                IF site = "none" THEN for_next(t, "log", "sleep")
                ELSE IF kind = "stall" THEN [t EXCEPT !.stalled = TRUE]
                ELSE for_next([t EXCEPT !.failed = @ \cup {task.at}],
                              AfterError(site), "sleep")
    /\ UNCHANGED alive
    /\ TaskFrame

\* client.start() returns in main.
Shutdown ==
    /\ alive
    /\ ~task.shutdown
    /\ task' = [task EXCEPT !.shutdown = TRUE]
    /\ UNCHANGED alive
    /\ TaskFrame

\* main returns and the runtime drops its tasks.
Teardown ==
    /\ alive
    /\ task.shutdown
    /\ alive' = FALSE
    /\ UNCHANGED task
    /\ TaskFrame

\* The repository plays no part in the guard or the loop's control flow.
InitWorker == InitLibsql /\ sessions = <<>>

NextWorker ==
    \/ \E d \in Deliveries : cache_ready_load(d)
    \/ \E d \in Deliveries : cache_ready_spawn(d)
    \/ loop_begin
    \/ calendar_for
    \/ series_for
    \/ Shutdown
    \/ Teardown

SpecWorker == InitWorker /\ [][NextWorker]_vars

\* The loop and the deliveries keep running as long as they can.
SpecWorkerFair ==
    InitWorker /\ [][NextWorker]_vars
    /\ WF_vars(loop_begin) /\ WF_vars(calendar_for) /\ WF_vars(series_for)

(***************************************************************************)
(* Properties                                                              *)
(***************************************************************************)
\* start - now is in [1 min, 5 min): inside the window of every revision.
CommonWindow(start, t) == start - t >= 60000 /\ start - t < 300000

Qualifies(r, t) ==
    /\ r.status \in {"Open", "Delayed"}
    /\ r.notify = "Notify"
    /\ CommonWindow(r.start, t)

\* C1: whatever calls fail, at most one notification message is sent for a
\* session.
C1_AtMostOneNotification == \A s \in SessionIds : sent[s] <= 1

\* Two notifications went out for one session.
C1_SentTwice == \E s \in SessionIds : sent[s] = 2

\* Some scheduler call of the running revision, on some weekend at the
\* current time, returns session s.
SchedulerReturns(s) ==
    \E w \in WeekendIds :
        LET rows == SessionsOf(sessions, w)
        IN  \/ /\ rev = "libsql"
               /\ \/ check_active_session(rows, now) = Some(s)
                  \/ next_session(rows, now) = Some(s)
            \/ /\ rev = "pg"
               /\ \E failAt \in {0} \cup IgnoredInWindow(rows, now) :
                    check_notify_session(rows, now, failAt).session = Some(s)
            \/ /\ rev = "mongo"
               /\ get_next_session(rows, now).kind = "CurrentSession"
               /\ rows[get_next_session(rows, now).index].id = s

\* C2: once the scheduler has returned a session and the caller has set it
\* to Finished, no later scheduler call returns it, at the same time or at
\* a later one.
C2_NeverReturnedAgain == \A s \in notified : ~SchedulerReturns(s)

\* A session was returned and set to Finished, and the time is still
\* inside its window.
C2_StillInWindow ==
    \E i \in DOMAIN sessions :
        /\ sessions[i].id \in notified
        /\ sessions[i].status = "Finished"
        /\ sessions[i].notify = "Notify"
        /\ CommonWindow(sessions[i].start, now)

\* C3: a Notify session is set to Finished only after its notification was
\* sent; a failed send leaves it Open or Delayed.
C3_FinishedOnlyAfterSend ==
    \A i \in DOMAIN sessions :
        (sessions[i].id \in finished /\ sessions[i].notify = "Notify")
            => sent[sessions[i].id] >= 1

\* C4: the notify window is exactly 0 <= start - now < 5 min, to the
\* millisecond: a returned session is inside it, and when none is returned
\* no Open session with preference Notify is inside it.
C4_NotifyWindowExact ==
    active # None =>
        LET a == active[1]
            rows == SessionsOf(sessions, a.w)
        IN  /\ a.session # None
                => InNotifyWindow(Row(a.session[1]).start, now)
            /\ (a.session = None /\ a.kind # "Err")
                => ~\E i \in DOMAIN rows :
                        /\ rows[i].status = "Open"
                        /\ rows[i].notify = "Notify"
                        /\ InNotifyWindow(rows[i].start, now)

\* C5: a session in the window is returned only if it is Open or Delayed
\* with preference Notify, and a Delayed one is reported like an Open one.
C5_EligibleStatusAndPreference ==
    active # None =>
        LET a == active[1]
            rows == SessionsOf(sessions, a.w)
        IN  /\ a.session # None
                => /\ Row(a.session[1]).status \in {"Open", "Delayed"}
                   /\ Row(a.session[1]).notify = "Notify"
            /\ (a.session = None /\ a.kind # "Err")
                => ~\E i \in DOMAIN rows : Qualifies(rows[i], now)

\* A call of runner in which no call fails.
runner_clean ==
    /\ LoopGuard("pg")
    /\ get_current_weekend(weekends) # None
    /\ UNCHANGED <<task, messages, calendar, rev, now, last_hash, alive, active, expired>>
    /\ runner_with(TRUE, TRUE, TRUE, 0, "found", TRUE, TRUE, TRUE)

\* C6: a session with preference Ignore causes no notification, and the
\* first iteration that observes it, Open or Delayed, inside its window
\* sets it to Finished.  (The iteration is one in which no call fails and
\* the scheduler walks the whole weekend; the window is the code's own.)
C6_IgnoreFinishedWhenObserved ==
    [][runner_clean =>
        LET w == get_current_weekend(weekends)[1]
        IN  \A i \in DOMAIN sessions :
              ( /\ sessions[i].weekend = w
                /\ sessions[i].notify = "Ignore"
                /\ sessions[i].status \in {"Open", "Delayed"}
                /\ NotifyWindow(sessions[i].start, now)
                /\ check_notify_session(SessionsOf(sessions, w), now, 0).session
                        = None )
              => /\ sessions'[i].status = "Finished"
                 /\ sent'[sessions[i].id] = 0]_vars

\* C7: of several sessions that qualify at the same time the scheduler
\* returns the one with the earliest start, the lowest id among equal
\* starts, whatever the order of the rows.
C7_EarliestStartLowestId ==
    (active # None /\ active[1].session # None) =>
        LET a == active[1]
            rows == SessionsOf(sessions, a.w)
            s == Row(a.session[1])
        IN  Qualifies(s, now) =>
              \A i \in DOMAIN rows :
                Qualifies(rows[i], now) =>
                    \/ s.start < rows[i].start
                    \/ s.start = rows[i].start /\ s.id <= rows[i].id

\* C8: the weekend-terminal decision is true exactly when the weekend is
\* Done, or it has sessions and each is Finished or Cancelled.
C8_TerminalDecision ==
    expired # None =>
        LET e == expired[1]
            rows == SessionsOf(sessions, e.w)
        IN  e.result <=>
              \/ weekends[e.w].status = "Done"
              \/ /\ rows # <<>>
                 /\ \A i \in DOMAIN rows :
                      Terminal(IF e.fn = "check_expired_weekend"
                                  /\ rows[i].id = e.id
                               THEN e.status ELSE rows[i].status)

\* C9: a weekend without sessions is never marked Done by the loop.
C9_EmptyWeekendNeverDone ==
    \A w \in marked_done : SessionsOf(sessions, w) # <<>>

\* C10: a weekend the loop set to Done has every session Finished or
\* Cancelled in the repository.
C10_DoneOnlyWhenAllTerminal ==
    \A w \in marked_done :
        \A i \in DOMAIN sessions :
            sessions[i].weekend = w => Terminal(sessions[i].status)

\* C11: no step of the loop changes a session status that is Finished or
\* Cancelled, or a weekend status that is Done or Cancelled.
C11_TerminalStatusKept ==
    [][/\ \A i \in DOMAIN sessions :
            Terminal(sessions[i].status)
                => sessions'[i].status = sessions[i].status
       /\ \A w \in WeekendIds :
            weekends[w].status \in {"Done", "Cancelled"}
                => weekends'[w].status = weekends[w].status]_vars

\* The loop has written a Finished status and a Done status while a
\* Cancelled session, inside the window of every revision, and a Cancelled
\* weekend were stored.
C11_LoopActedBesideTerminal ==
    /\ finished # {}
    /\ marked_done # {}
    /\ \E w \in WeekendIds : weekends[w].status = "Cancelled"
    /\ \E i \in DOMAIN sessions :
        /\ sessions[i].status = "Cancelled"
        /\ sessions[i].weekend \in marked_done
        /\ CommonWindow(sessions[i].start, now)

\* C12: a weekend whose only session that is not terminal is A (Open,
\* Notify, start = now + 3 min), the others Finished: one pass in which no
\* call fails sends exactly one notification for A, sets A to Finished and
\* sets the weekend to Done.
C12_OnePassNotifiesAndCloses ==
    [][runner_clean =>
        LET w == get_current_weekend(weekends)[1]
        IN  \A i \in DOMAIN sessions :
              ( /\ sessions[i].weekend = w
                /\ sessions[i].status = "Open"
                /\ sessions[i].notify = "Notify"
                /\ sessions[i].start - now = 180000
                /\ \A j \in DOMAIN sessions :
                     (j # i /\ sessions[j].weekend = w)
                        => sessions[j].status = "Finished" )
              => /\ sent'[sessions[i].id] = sent[sessions[i].id] + 1
                 /\ sessions'[i].status = "Finished"
                 /\ weekends'[w].status = "Done"]_vars

\* C13: the messages table holds at most one Persistent row per series that
\* is not expired, also after a replacement for a message that was deleted
\* from the channel.
C13_AtMostOnePersistent ==
    (IF persistent.exists THEN 1 ELSE 0) + persistent.extra <= 1

\* libsql: a pass in which no call fails, except that the channel answers
\* for a message that is gone what it does answer: not-found.
cache_ready_clean ==
    /\ LoopGuard("libsql")
    /\ fetch_next_full_weekend_for_series(weekends) # None
    /\ UNCHANGED <<task, messages, calendar, rev, now, last_hash, alive, active, expired>>
    /\ cache_ready_with(TRUE, TRUE, TRUE, TRUE, TRUE, TRUE, TRUE, TRUE, TRUE)

\* libsql: the call the pass issues for the status message of the weekend
\* it fetches, read from the state the pass starts in.
\* lwi0 is the weekend id the loop holds in memory when the pass starts.
NextCallWith(lwi0) ==
    LET cur == fetch_next_full_weekend_for_series(weekends)
        w == cur[1]
        lwi == IF lwi0 = 0 THEN w ELSE lwi0
    IN  IF cur = None THEN "none"
        ELSE weekend_message_calls(
                 persistent, FullWeekendHash(w, SessionsOf(sessions, w)),
                 lwi # w)

NextCall == NextCallWith(last_weekend_ids)

\* C14: when the message of the tracked Persistent record answers not-found
\* to the edit of a pass in which nothing else fails, the record the pass
\* leaves tracked names a message that exists in the channel (the pass
\* created a fresh one).
C14_NotFoundRecreates ==
    [][(/\ cache_ready_clean
        /\ persistent.exists
        /\ ~persistent.live
        /\ persistent.hash # NoHash
        /\ NextCall = "edit")
       => (persistent'.exists => persistent'.live)]_vars

\* C14: a pass edits a tracked message that is gone from the channel.
C14_EditOfMissingMessage ==
    /\ rev = "libsql"
    /\ persistent.exists
    /\ ~persistent.live
    /\ persistent.hash # NoHash
    /\ NextCall = "edit"

\* C15: after a pass in which no call fails and which leaves the weekend
\* and its sessions as they were, the next pass on that weekend issues no
\* edit and no create for the Persistent message, whatever hash the tracked
\* record held before (none included).
C15_SecondPassIssuesNoCall ==
    [][(/\ cache_ready_clean
        /\ persistent.exists
        /\ NextCall \in {"edit", "none"}
        /\ sessions' = sessions
        /\ weekends' = weekends)
       => NextCall' = "none"]_vars

\* C15: a pass has run on a tracked record without a stored hash.
C15_PassedWithoutHash ==
    /\ rev = "libsql"
    /\ last_weekend_ids # 0
    /\ persistent.exists
    /\ persistent.hash = NoHash
    /\ NextCall = "edit"

\* libsql: a pass in which update_weekend_message fails and no other call
\* does.
cache_ready_edit_fails ==
    /\ LoopGuard("libsql")
    /\ fetch_next_full_weekend_for_series(weekends) # None
    /\ UNCHANGED <<task, messages, calendar, rev, now, last_hash, alive, active, expired>>
    /\ cache_ready_with(TRUE, TRUE, TRUE, TRUE, TRUE, FALSE, TRUE, TRUE, TRUE)

\* C16: when the edit of the Persistent message fails in a pass, the hash
\* stored in its tracked record is the one it held before the pass, so the
\* next pass still sees the mismatch.
C16_FailedEditKeepsHash ==
    [][(/\ cache_ready_edit_fails
        /\ persistent.exists
        /\ persistent.hash # NoHash
        /\ NextCall = "edit")
       => (persistent'.exists => persistent'.hash = persistent.hash)]_vars

\* C16: a pass is about to edit a tracked message that exists in the
\* channel and whose stored hash is stale.
C16_EditDue ==
    /\ rev = "libsql"
    /\ last_weekend_ids # 0
    /\ persistent.exists
    /\ persistent.live
    /\ persistent.hash # NoHash
    /\ NextCall = "edit"

\* pg: a call of runner in which no call fails, whether or not a current
\* weekend exists.
runner_ok ==
    /\ LoopGuard("pg")
    /\ UNCHANGED <<task, messages, calendar, rev, now, last_hash, alive, active, expired>>
    /\ \E found \in Fetched(persistent) \cup {"found"} :
        /\ persistent.exists => found \in Fetched(persistent)
        /\ runner_with(TRUE, TRUE, TRUE, 0, found, TRUE, TRUE, TRUE)

\* pg: the loop keeps calling runner, time passes, and calls that keep
\* being made succeed again and again.
SpecPgFair ==
    /\ InitPgChannel
    /\ [][NextPg]_vars
    /\ WF_vars(Tick)
    /\ SF_vars(runner_ok)

\* C17: once the series has no weekend that is still Open while a
\* Persistent record is tracked, the record is eventually removed (with its
\* message).
C17_StalePersistentCleared ==
    (get_current_weekend(weekends) = None /\ persistent.exists)
        ~> ~persistent.exists

\* C17: no Open weekend is left and a Persistent record is tracked.
C17_NoUpcomingButTracked ==
    /\ rev = "pg"
    /\ get_current_weekend(weekends) = None
    /\ persistent.exists
    /\ persistent.live

\* C18: in a sweep of check_expired_messages in which no repository call
\* fails, every selected message whose delete the channel answers with
\* not-found has its tracked record removed by that sweep.
C18_NotFoundRemovesRecord ==
    [][\A ans \in AnswerFns(messages) :
         (/\ rev = "libsql"
          /\ check_expired_messages_with(TRUE, ans, 0))
         => \A i \in DOMAIN messages :
               messages[i].row /\ ans[i] = "notfound" => ~messages'[i].row]_vars

\* C18: a sweep got not-found for a message and its record is gone.
C18_SweptAfterNotFound ==
    /\ rev = "libsql"
    /\ \E i \in DOMAIN messages :
        messages[i].answer = "notfound" /\ ~messages[i].row

calendar_clean ==
    /\ CalendarFrame
    /\ \/ /\ rev = "libsql"
          /\ calendar_due
          /\ calendar_pass_with(TRUE, TRUE, 0, TRUE, TRUE, {}, {})
       \/ /\ rev = "pg"
          /\ populate_calendar_with(TRUE, TRUE, 0)

\* C20: with W open weekends and M < W tracked Calendar messages, a
\* reconciliation in which no call fails issues W - M create calls, one at
\* a time, and no delete call, and leaves W tracked Calendar records.
C20_CreatesTheMissing ==
    [][(/\ calendar_clean
        /\ Len(calendar.rows) < CalendarWeekends(weekends))
       => /\ calendar'.creates =
                CalendarWeekends(weekends) - Len(calendar.rows)
          /\ calendar'.pending = 1
          /\ calendar'.deletes = 0
          /\ Len(calendar'.rows) = CalendarWeekends(weekends)]_vars

\* C20: a reconciliation added to the Calendar messages that were there
\* and the count now matches the weekends.
C20_CalendarCompleted ==
    /\ calendar.creates > 0
    /\ calendar.creates < Len(calendar.rows)
    /\ calendar.deletes = 0
    /\ Len(calendar.rows) = CalendarWeekends(weekends)

\* C21: with W open weekends and M > W tracked Calendar messages, a
\* reconciliation of create_calendar in which no call fails issues M - W
\* delete calls and no create and leaves W tracked Calendar records, each
\* of them with its message in the channel.
C21_DeletesTheSurplus ==
    [][(/\ calendar_clean
        /\ rev = "libsql"
        /\ \A i \in DOMAIN calendar.rows : calendar.rows[i]
        /\ Len(calendar.rows) > CalendarWeekends(weekends))
       => /\ calendar'.deletes =
                Len(calendar.rows) - CalendarWeekends(weekends)
          /\ calendar'.creates = 0
          /\ Len(calendar'.rows) = CalendarWeekends(weekends)
          /\ \A i \in DOMAIN calendar'.rows : calendar'.rows[i]]_vars

\* C21: a reconciliation issued delete calls for surplus Calendar messages.
C21_SurplusDeleted ==
    /\ rev = "libsql"
    /\ calendar.deletes > 0
    /\ calendar.creates = 0

\* An edit pass over the Calendar messages in which the edits of the pairs
\* in fails fail and no other call does.
calendar_edit_pass(fails) ==
    /\ CalendarFrame
    /\ \/ /\ rev = "libsql"
          /\ calendar_due
          /\ calendar_pass_with(TRUE, TRUE, 0, TRUE, TRUE, fails, {})
       \/ /\ rev = "pg"
          /\ calendar' = update_calendar_with(calendar, TRUE, fails, {})

\* C22: in an edit pass over the Calendar pairs, whichever edits fail, every
\* pair that is due and whose edit does not fail shows the new content and
\* has the new hash stored, and a pass that issued edits returns Ok.
C22_FailedEditSparesOthers ==
    [][\A fails \in SUBSET (1..MaxCalendar) :
         calendar_edit_pass(fails)
         => /\ \A i \in calendar'.tried :
                 i \notin fails /\ calendar'.rows[i]
                 => /\ calendar'.shown[i] = PairHash(i)
                    /\ calendar'.hash[i] = PairHash(i)
            /\ calendar'.tried # {} => calendar'.result = "Ok"]_vars

\* C22: an edit pass returned Ok after some of its edits failed and others
\* succeeded.
C22_SomeFailedSomeEdited ==
    /\ calendar.result = "Ok"
    /\ calendar.edits # {}
    /\ \E i \in calendar.tried \ calendar.edits : calendar.rows[i]

\* C23: the loop is never ended by a failing repository or channel call:
\* after every pass the process is alive to begin the next one.
C23_LoopStaysAlive == alive = TRUE

\* C23: the process has exited while a weekend was still current.
C23_ExitedWithWorkLeft ==
    /\ ~alive
    /\ filter_current_weekend(weekends, now) # None

C25_OthersKeepRunning ==
    \A s \in Series :
        [](task.stalled /\ task.at # s
            => <>(~alive \/ (~task.stalled /\ task.at = s
                             /\ task.phase # "sleep")))

C25_StalledInFirstSeries ==
    task.stalled /\ task.at = 1 /\ task.phase = "series" /\ alive

\* C26: however the deliveries of cache_ready interleave, at most one loop
\* is spawned.
C26_AtMostOneLoop == task.loops <= 1

C26_BothPassedTheGuard == \A d \in Deliveries : task.pc[d] = "spawned"

\* C27: after the shutdown signal the loop begins no new iteration.
C27_NoIterationAfterShutdown ==
    [][task.shutdown => ~(task.phase = "sleep" /\ task'.phase # "sleep")]_vars

C27_BegunAfterShutdown ==
    task.shutdown /\ alive /\ task.phase # "sleep" /\ task.at = 1
    /\ task.ran = {} /\ task.cal = {}

\* C28: the call a pass issues for the status message depends on the
\* repository and the time only: it is the call a freshly started loop,
\* which holds no weekend id in memory yet, issues from the same state.
C28_MemoryDoesNotMatter ==
    rev = "libsql" => NextCall = NextCallWith(0)

\* C28: the loop in memory of the previous weekend expires the message that
\* a freshly started loop edits.
C28_ExpiresWhereFreshEdits ==
    /\ rev = "libsql"
    /\ LoopGuard("libsql")
    /\ NextCall = "expire"
    /\ NextCallWith(0) = "edit"

\* C29: once a pass has marked a weekend Done, no pass creates or edits a
\* Persistent message that shows this weekend.
C29_NoPostForDoneWeekend ==
    [][(/\ persistent'.exists
        /\ (~persistent.exists \/ persistent'.hash # persistent.hash))
       => persistent'.hash.w \notin marked_done']_vars

\* C29: the tracked Persistent message shows a weekend the loop marked Done.
C29_ShowsDoneWeekend ==
    /\ rev = "pg"
    /\ persistent.exists
    /\ persistent.hash.w \in marked_done

\* C30: a pass that finds the count of tracked Calendar messages different
\* from the count of open weekends edits no Calendar message and changes no
\* stored hash.
C30_NoEditWhenCountsDiffer ==
    [][(/\ rev = "pg"
        /\ CalendarFrame
        /\ Len(calendar.rows) # CalendarWeekends(weekends)
        /\ \E fails \in SUBSET (1..MaxCalendar) :
             \E hfails \in SUBSET (1..MaxCalendar) :
                calendar' = update_calendar_with(calendar, TRUE,
                                                 fails, hfails))
       => /\ calendar'.edits = {}
          /\ calendar'.hash = calendar.hash
          /\ calendar'.shown = calendar.shown]_vars

\* C30: messages were edited in a pass although the counts differ.
C30_EditedWithCountsApart ==
    /\ rev = "pg"
    /\ Len(calendar.rows) # CalendarWeekends(weekends)
    /\ calendar.edits # {}
    /\ calendar.result = "Ok"

\* pg: the calendar calls on their own.
InitPgCalendar == InitCalendar /\ rev = "pg"

NextPgCalendar ==
    \/ populate_calendar
    \/ update_calendar
    \/ ChannelDeleteCalendar

\* pg: the set of open weekends is fixed, and a reconciliation in which no
\* call fails happens again and again.
SpecPgCalendarFair ==
    /\ InitPgCalendar
    /\ [][NextPgCalendar]_vars
    /\ SF_vars(calendar_clean)

\* C31: with a fixed set of open weekends and calls that succeed again and
\* again, the reconciliation passes reach, and stay in, a state where as
\* many Calendar messages are tracked as weekends are open.
C31_CountsConverge ==
    <>[](Len(calendar.rows) = CalendarWeekends(weekends))

\* C31: more Calendar messages are tracked than weekends are open, after a
\* reconciliation.
C31_SurplusAfterPass ==
    /\ rev = "pg"
    /\ Len(calendar.rows) > CalendarWeekends(weekends)
    /\ calendar.result # "none"

\* C32: once posted time + session duration has passed for a tracked
\* Notification record, the sweep eventually removes the record.
C32_ExpiredEventuallySwept ==
    \A i \in MessageIds :
        [](messages[i].row /\ messages[i].posted + messages[i].duration < now
            => <>(~messages[i].row))

\* C32: a Notification record is tracked long after its session is over.
C32_TrackedPastExpiry ==
    /\ rev = "pg"
    /\ now = Hours[Len(Hours)]
    /\ \E i \in MessageIds :
        /\ messages[i].row
        /\ messages[i].posted + messages[i].duration < now

\* C33: the loop changes the tracked Calendar messages only in an iteration
\* that starts more than five minutes after the remembered last run, and
\* that iteration sets the remembered time to its own.
C33_CalendarOnlyWhenDue ==
    [][(/\ rev = "libsql"
        /\ calendar' # calendar
        /\ ~ChannelDeleteCalendar)
       => /\ now - calendar.last > 300000
          /\ calendar'.last = now]_vars

\* C33: a reconciliation ran, reset the remembered time and posted.
C33_RanWhenDue ==
    /\ rev = "libsql"
    /\ calendar.last > 300000
    /\ calendar.last = now
    /\ calendar.creates > 0

\* ---------------------------------------------------------------------
\* The weekend hash over snapshots that differ in row order only
\* ---------------------------------------------------------------------
\* The next snapshot holds the same session rows in another order.
reorder_rows ==
    /\ \E p \in [DOMAIN sessions -> DOMAIN sessions] :
        /\ \A i, j \in DOMAIN sessions : p[i] = p[j] => i = j
        /\ sessions' = [i \in DOMAIN sessions |-> sessions[p[i]]]
    /\ sessions' # sessions
    /\ UNCHANGED <<task, messages, calendar, rev, now, weekends, persistent,
                   last_weekend_ids, last_hash, alive, sent, notified,
                   finished, marked_done, active, expired>>

\* pg: every Open weekend has its Calendar message, which shows the
\* weekend as it is and whose stored hash is the hash of that content; the
\* first weekend has two sessions.
InitReorder ==
    /\ rev = "pg"
    /\ now = Instants[1]
    /\ weekends = InitWeekends({}, {})
    /\ \E st \in [1..MaxSessions -> Starts],
          pf \in [1..MaxSessions -> Profiles(rev)] :
        /\ \A i \in 1..MaxSessions :
             Terminal(pf[i][1]) => \A t \in Starts : st[i] <= t
        /\ sessions = InitRows(MaxSessions, MaxSessions, st, pf)
    /\ persistent = NoMsg
    /\ last_hash = NoHash
    /\ last_weekend_ids = 0
    /\ alive = TRUE
    /\ sent = [s \in SessionIds |-> 0]
    /\ notified = {}
    /\ finished = {}
    /\ marked_done = {}
    /\ active = None
    /\ expired = None
    /\ task = NoTask
    /\ messages = NoMessages
    /\ calendar = [NoCalendar EXCEPT
                      !.rows = Reserved(NumWeekends),
                      !.hash = [i \in 1..NumWeekends |-> PairHash(i)],
                      !.shown = [i \in 1..NumWeekends |-> PairHash(i)]]

NextReorder == reorder_rows \/ update_calendar

SpecReorder == InitReorder /\ [][NextReorder]_vars

\* C34: the hash of a weekend does not depend on the order of its session
\* rows: while only the row order changes, the hash stored with each
\* Calendar message stays the hash of the weekend's current snapshot.
C34_OrderDoesNotMatter ==
    \A i \in DOMAIN calendar.rows : calendar.hash[i] = PairHash(i)

\* C34: a Calendar message was edited although only the row order changed.
C34_EditedAfterReorder ==
    /\ calendar.edits # {}
    /\ \A i \in DOMAIN sessions : sessions[i].weekend = 1
    /\ Len(sessions) = MaxSessions

\* C35: every notification message the loop has sent has its tracked
\* Notification record in the repository after the pass that sent it.
C35_SentIsTracked ==
    \A i \in DOMAIN messages :
        messages[i].session \in SessionIds /\ messages[i].live
            => messages[i].row

\* C35: a notification was sent and its record stored.
C35_SentAndTracked ==
    \E i \in DOMAIN messages :
        messages[i].session \in SessionIds /\ messages[i].row

\* C36: at most one Persistent message of the series is in the channel:
\* the tracked one, if it exists there, and the posted ones whose record was
\* never stored.
C36_OnePersistentInChannel ==
    (IF persistent.exists /\ persistent.live THEN 1 ELSE 0)
        + Orphans(messages) <= 1

\* C36: a post succeeded and the insert of its record failed.
C36_PostedUntracked ==
    Orphans(messages) > 0 /\ ~persistent.exists

(***************************************************************************)
(* The session write of the pg runner, apart from the read it rests on     *)
(***************************************************************************)
\* A write of Finished that is conditional on the row being Open.
mark_if_open(rows, id) ==
    [i \in DOMAIN rows |->
        IF rows[i].id = id /\ rows[i].status = "Open"
        THEN [rows[i] EXCEPT !.status = "Finished"] ELSE rows[i]]

\* notifs.rs 307-328: UPDATE sessions set status = 'Done' WHERE id = $2.
\* The statement names the row by its id alone, whatever its status is.
mark_session_notified(rows, id) == SetStatus(rows, {id}, "Finished")

\* Another writer of the repository sets a session that is not terminal
\* to Cancelled.
IngestCancel ==
    /\ \E i \in DOMAIN sessions :
        /\ sessions[i].status \in {"Open", "Delayed"}
        /\ sessions' = SetStatus(sessions, {sessions[i].id}, "Cancelled")
    /\ Idle
    /\ UNCHANGED <<finished, active, expired>>

\* notifs.rs 196-228, the tail of runner: the session check_notify_session
\* returned from the rows runner read is marked and, when the mark
\* succeeded, notified.  mok and sok are the outcomes of
\* mark_session_notified and send_message.
RunnerNotify ==
    /\ rev = "pg"
    /\ active # None
    /\ active[1].fn = "check_notify_session"
    /\ active[1].session # None
    /\ LET id == active[1].session[1]
       IN  /\ sent[id] < MaxSent
           /\ \E mok \in BOOLEAN :
                \E sok \in Outcomes(mok) :
                  /\ sessions' = IF mok
                                 THEN mark_session_notified(sessions, id)
                                 ELSE sessions
                  /\ finished' = IF mok THEN finished \cup {id} ELSE finished
                  /\ notified' = IF mok THEN notified \cup {id} ELSE notified
                  /\ sent' = IF mok /\ sok THEN Bump(sent, id) ELSE sent
    /\ active' = None
    /\ UNCHANGED <<task, messages, calendar, rev, now, weekends, persistent,
                   last_weekend_ids, last_hash, alive, marked_done, expired>>

InitRace == InitSched /\ rev = "pg"

NextRace == CheckNotifySession \/ IngestCancel \/ RunnerNotify \/ Tick

SpecRace == InitRace /\ [][NextRace]_vars

\* C37: the write that marks a session Finished does not overwrite a
\* Cancelled that another writer stored after the loop read the session: a
\* session that is Cancelled in the repository stays Cancelled.
C37_CancelledIsKept ==
    [][\A i \in DOMAIN sessions :
          sessions[i].status = "Cancelled"
              => sessions'[i].status = "Cancelled"]_vars

\* C37: the loop marked a session that it had read as Open.
C37_MarkedAfterRead ==
    \E i \in DOMAIN sessions :
        /\ sessions[i].id \in notified
        /\ sessions[i].status = "Finished"

\* C38: every Open or Delayed session of the current weekend eventually
\* has a terminal status, also when no pass ran while the session was in
\* its notify window.
C38_MissedSessionsClose ==
    \A i \in 1..MaxSessions :
        (/\ i \in DOMAIN sessions
         /\ sessions[i].status \in {"Open", "Delayed"}
         /\ get_current_weekend(weekends) = Some(sessions[i].weekend))
            ~> (i \in DOMAIN sessions /\ Terminal(sessions[i].status))

\* C38: the window of an Open session of the current weekend has passed
\* and no pass has marked or notified the session.
C38_WindowMissed ==
    \E i \in DOMAIN sessions :
        /\ sessions[i].status = "Open"
        /\ get_current_weekend(weekends) = Some(sessions[i].weekend)
        /\ now > sessions[i].start
        /\ sessions[i].id \notin finished

\* libsql: from the states in which the first weekend has all the sessions,
\* the loop keeps running, time passes, and a pass in which every call
\* succeeds keeps being made while it has something to do.
InitRetry ==
    /\ InitLibsql
    /\ sessions # <<>>
    /\ \A i \in DOMAIN sessions : sessions[i].weekend = 1

SpecLibsqlFair ==
    /\ InitRetry
    /\ [][NextLibsql]_vars
    /\ WF_vars(Tick)
    /\ WF_vars(cache_ready_clean)

\* The current weekend is w, it is Open and each of its sessions is
\* Finished or Cancelled.
AllTerminal(w) ==
    /\ fetch_next_full_weekend_for_series(weekends) = Some(w)
    /\ SessionsOf(sessions, w) # <<>>
    /\ \A i \in DOMAIN sessions :
         sessions[i].weekend = w => Terminal(sessions[i].status)

\* C39: a weekend whose sessions are all terminal is eventually marked
\* Done while the loop runs, however many of the earlier Done writes
\* failed: every pass finds it again and writes Done again.
C39_TerminalWeekendMarkedDone ==
    \A w \in WeekendIds :
        (LoopGuard("libsql") /\ AllTerminal(w))
            ~> (weekends[w].status = "Done" /\ w \in marked_done)

\* C39: a pass met the first weekend with all sessions terminal and its
\* Done write failed: the weekend is still Open and nothing else changed.
C39_DoneWriteFailed ==
    /\ AllTerminal(1)
    /\ last_weekend_ids = 1
    /\ marked_done = {}
    /\ finished = {}

====
